---- MODULE Spec2Model ----
(***************************************************************************)
(* Model of scripts/install_deps.py: main() and the Dependencies class     *)
(* (install, windows, mac, linux).  One run of the script is a sequential  *)
(* program; pc is its position, calls is the log of the collaborator calls *)
(* and prints it has made, in order.  The host (OS family, CI flag,        *)
(* elevation, installed toolkit, distro, configured command, presence of   *)
(* sudo, which collaborator call raises) is chosen in Init.                *)
(***************************************************************************)
EXTENDS Integers, Sequences, FiniteSets, TLC

VARIABLES
  os_family,      \* what env.is_windows / is_mac / is_linux answer
  only,           \* args.only: "" (absent), "qt", or another name
  pause_on_exit,  \* args.pause_on_exit
  is_ci,          \* what env.is_running_in_ci() answers on this host
  is_admin,       \* what windows.is_admin() answers
  distro,         \* what env.get_linux_distro() answers ("" = none)
  linux_cmd,      \* the command the configuration holds for ConfiguredDistro
  has_sudo,       \* what cmd_utils.has_command("sudo") answers
  fault,          \* the collaborator call that raises on this host ("none")
  run_exit,       \* exit status of the external install command
  config,         \* self.config: the loaded configuration structure
  qt_installed,   \* host state: qt.get_install_dir() finds an installation
  choco_packages, \* host state: the packages WindowsChoco is set to install
  pc,             \* position in the script
  ci_env,         \* self.ci_env
  error,          \* main's local `error`
  err,            \* the exception being propagated ("" = none)
  command,        \* the local `command` of the running strategy
  qt_install_dir, \* the local `qt_install_dir` of Dependencies.windows (found?)
  ran,            \* the Command Runner invocations: <<[cmd, check]>>
  calls,          \* log of collaborator calls and prints, in order
  exit_code,      \* process exit status, -1 while running
  run_no,         \* number of the current run on this host
  prev_calls,     \* calls of the previous finished run
  prev_exit,      \* exit_code of the previous finished run
  prev_only,      \* args.only of the previous finished run
  prev_ran        \* ran of the previous finished run

probed == <<os_family, pause_on_exit, is_ci, is_admin, distro, linux_cmd,
            has_sudo, fault, run_exit>>
inputs == <<probed, only, config>>
host == <<qt_installed, choco_packages>>
hist == <<run_no, prev_calls, prev_exit, prev_only, prev_ran>>
vars == <<inputs, host, pc, ci_env, error, err, command,
          qt_install_dir, ran, calls, exit_code, hist>>

---------------------------------------------------------------------------
(* Bounds *)
MaxPieces == 3
MaxRuns == 2

---------------------------------------------------------------------------
(* Strings are sequences of one-character strings. *)
Sudo == <<"s", "u", "d", "o">>
SudoSp == <<"s", "u", "d", "o", " ">>
Pieces == {Sudo, SudoSp, <<" ">>, <<"x">>}

RECURSIVE CommandsUpTo(_)
CommandsUpTo(n) ==
  IF n = 0 THEN {<<>>}
  ELSE LET prev == CommandsUpTo(n - 1)
       IN  prev \cup {c \o p : c \in prev, p \in Pieces}

Commands == CommandsUpTo(MaxPieces)

MacCommand == <<"b", "r", "e", "w">>

\* the Windows entries of the configuration: the install command, and the
\* CI settings (the choco config file to edit, the packages to skip)
LoadedConfig ==
  [deps_command |-> <<"c", "h", "o", "c", "o">>,
   choco_ci |-> [edit_config |-> "choco.config", skip_packages |-> {"b"}]]

\* the packages WindowsChoco is set to install before any run
ChocoFilePackages == {"a", "b"}

\* Python `sub in s`
Contains(s, sub) ==
  \E i \in 1..(Len(s) - Len(sub) + 1) : SubSeq(s, i, i + Len(sub) - 1) = sub

\* Python s.replace(old, new): every non-overlapping occurrence, left to right
RECURSIVE Replace(_, _, _)
Replace(s, old, new) ==
  IF Len(s) < Len(old) THEN s
  ELSE IF SubSeq(s, 1, Len(old)) = old
       THEN new \o Replace(SubSeq(s, Len(old) + 1, Len(s)), old, new)
       ELSE <<Head(s)>> \o Replace(Tail(s), old, new)

\* Python s.strip(): leading and trailing whitespace removed
RECURSIVE LStrip(_)
LStrip(s) == IF s # <<>> /\ Head(s) = " " THEN LStrip(Tail(s)) ELSE s

RECURSIVE RStrip(_)
RStrip(s) ==
  IF s # <<>> /\ s[Len(s)] = " " THEN RStrip(SubSeq(s, 1, Len(s) - 1)) ELSE s

Strip(s) == RStrip(LStrip(s))

\* position of the first occurrence of c in the log, 0 when absent
IndexOf(log, c) ==
  IF \E i \in 1..Len(log) : log[i] = c
  THEN CHOOSE i \in 1..Len(log) : log[i] = c /\ \A j \in 1..(i - 1) : log[j] # c
  ELSE 0

Count(log, c) == Cardinality({i \in 1..Len(log) : log[i] = c})

Called(c) == IndexOf(calls, c) > 0

---------------------------------------------------------------------------
(* Collaborators outside install_deps.py *)

\* env.is_windows / is_mac / is_linux
env_is_windows == os_family = "windows"
env_is_mac == os_family = "mac"
env_is_linux == os_family = "linux"

\* Config.get_linux_deps_command: the distros that have a command
ConfiguredDistro == "ubuntu"
HasLinuxDepsCommand(d) == d = ConfiguredDistro

\* WindowsChoco.remove_from_config: the skipped packages are taken out
RemoveFromChocoFile(packages, skip) == packages \ skip

\* cmd_utils.run(command, check): raises on a non-zero exit when check
RunRaises(check) == fault = "run" \/ (check /\ run_exit # 0)

---------------------------------------------------------------------------
CommonFaults == {"none", "bootstrap", "Config", "is_running_in_ci"}
WindowsFaults == {"is_admin", "relaunch_as_admin", "get_qt_config",
                  "get_install_dir", "qt.install", "set_env_vars",
                  "WindowsChoco", "config_ci_cache", "get_choco_ci_config",
                  "remove_from_config", "get_deps_command", "choco.install"}
MacFaults == {"get_os_deps_value", "run", "get_os_value",
              "set_cmake_prefix_env_var"}
LinuxFaults == {"get_linux_distro", "get_linux_deps_command", "has_command",
                "run"}

Init ==
  /\ os_family \in {"windows", "mac", "linux", "unknown"}
  /\ only \in {"", "qt", "other"}
  /\ pause_on_exit \in BOOLEAN
  /\ is_ci \in BOOLEAN
  \* what only one platform's strategy reads varies on that platform only
  /\ IF os_family = "windows"
     THEN is_admin \in BOOLEAN /\ qt_installed \in BOOLEAN
     ELSE is_admin = FALSE /\ qt_installed = FALSE
  /\ IF os_family = "linux"
     THEN /\ distro \in {"", ConfiguredDistro, "exotic"}
          /\ has_sudo \in BOOLEAN
          /\ IF distro = ConfiguredDistro
             THEN linux_cmd \in Commands
             ELSE linux_cmd = <<>>
     ELSE distro = "" /\ has_sudo = FALSE /\ linux_cmd = <<>>
  /\ IF os_family \in {"mac", "linux"}
     THEN run_exit \in {0, 100}
     ELSE run_exit = 0
  /\ fault \in CommonFaults \cup
       (CASE os_family = "windows" -> WindowsFaults
          [] os_family = "mac" -> MacFaults
          [] os_family = "linux" -> LinuxFaults
          [] OTHER -> {})
  /\ config = LoadedConfig
  /\ choco_packages = (IF os_family = "windows" THEN ChocoFilePackages ELSE {})
  /\ pc = "main"
  /\ ci_env = FALSE
  /\ error = FALSE
  /\ err = ""
  /\ command = <<>>
  /\ qt_install_dir = FALSE
  /\ ran = <<>>
  /\ calls = <<>>
  /\ exit_code = -1
  /\ run_no = 1
  /\ prev_calls = <<>>
  /\ prev_exit = -1
  /\ prev_only = ""
  /\ prev_ran = <<>>

---------------------------------------------------------------------------
(* A collaborator call made inside main's try block: it is logged, and it *)
(* either raises (control goes to the except clause) or returns.          *)
Invoke(call, exc, next) ==
  /\ calls' = Append(calls, call)
  /\ IF fault = call
     THEN pc' = "except" /\ err' = exc
     ELSE pc' = next /\ err' = err

\* main, lines 15-23: the bootstrap before the try block
Bootstrap ==
  /\ pc = "main"
  /\ IF fault = "bootstrap"
     THEN /\ pc' = "done"
          /\ err' = "BootstrapError"
          /\ exit_code' = 1
          /\ calls' = Append(calls, "uncaught_traceback")
     ELSE /\ pc' = "construct"
          /\ UNCHANGED <<err, exit_code, calls>>
  /\ error' = FALSE
  /\ UNCHANGED <<inputs, host, ci_env, command, ran, qt_install_dir, hist>>

\* Dependencies.__init__: Config()
Construct ==
  /\ pc = "construct"
  /\ Invoke("Config", "ConfigError", "init_ci")
  /\ UNCHANGED <<inputs, host, ci_env, error, command, ran,
                 exit_code, qt_install_dir, hist>>

\* Dependencies.__init__: self.ci_env = env.is_running_in_ci()
InitCi ==
  /\ pc = "init_ci"
  /\ IF fault = "is_running_in_ci"
     THEN /\ calls' = Append(calls, "is_running_in_ci")
          /\ pc' = "except" /\ err' = "Exception"
          /\ UNCHANGED ci_env
     ELSE /\ ci_env' = is_ci
          /\ calls' = IF is_ci
                      THEN calls \o <<"is_running_in_ci", "print_ci">>
                      ELSE Append(calls, "is_running_in_ci")
          /\ pc' = "install" /\ UNCHANGED err
  /\ UNCHANGED <<inputs, host, error, command, ran, exit_code, qt_install_dir, hist>>

\* Dependencies.install: the dispatch on the probed platform
InstallBadFallthrough ==
  /\ pc = "install"
  /\ IF env_is_windows
     THEN pc' = "windows" /\ calls' = calls \o <<"install", "windows">>
     ELSE IF env_is_mac
     THEN pc' = "mac" /\ calls' = calls \o <<"install", "mac">>
     ELSE pc' = "linux" /\ calls' = calls \o <<"install", "linux">>
  /\ UNCHANGED <<inputs, host, ci_env, error, err, command, ran,
                 exit_code, qt_install_dir, hist>>

Install ==
  /\ pc = "install"
  /\ IF env_is_windows
     THEN /\ pc' = "windows" /\ UNCHANGED err
          /\ calls' = calls \o <<"install", "windows">>
     ELSE IF env_is_mac
     THEN /\ pc' = "mac" /\ UNCHANGED err
          /\ calls' = calls \o <<"install", "mac">>
     ELSE IF env_is_linux
     THEN /\ pc' = "linux" /\ UNCHANGED err
          /\ calls' = calls \o <<"install", "linux">>
     ELSE /\ pc' = "except" /\ err' = "UnsupportedPlatform"
          /\ calls' = Append(calls, "install")
  /\ UNCHANGED <<inputs, host, ci_env, error, command, ran,
                 exit_code, qt_install_dir, hist>>

---------------------------------------------------------------------------
(* Dependencies.windows *)

WINDOWS_REST == <<inputs, ci_env, error, command, ran, exit_code,
                  qt_install_dir, hist>>

\* line 66: windows.is_admin()
WinCheckAdmin ==
  /\ pc = "windows"
  /\ Invoke("is_admin", "Exception",
            IF is_admin THEN "win_gate" ELSE "win_relaunch")
  /\ UNCHANGED <<WINDOWS_REST, host>>

\* lines 67-68: relaunch elevated, then sys.exit().  SystemExit is not an
\* Exception, so main's except clause does not catch it: the process ends
\* there with status 0.
WinRelaunchNoExit ==
  /\ pc = "win_relaunch"
  /\ Invoke("relaunch_as_admin", "Exception", "win_gate")
  /\ UNCHANGED <<WINDOWS_REST, host>>
WinRelaunch ==
  /\ pc = "win_relaunch"
  /\ IF fault = "relaunch_as_admin"
     THEN /\ calls' = Append(calls, "relaunch_as_admin")
          /\ pc' = "except" /\ err' = "Exception"
          /\ UNCHANGED exit_code
     ELSE /\ calls' = calls \o <<"relaunch_as_admin", "sys.exit">>
          /\ pc' = "done" /\ exit_code' = 0
          /\ UNCHANGED err
  /\ UNCHANGED <<inputs, host, ci_env, error, command, ran, qt_install_dir, hist>>

\* line 70
only_qt == only = "qt"

\* line 73: the condition under which the Qt stage runs
QtStageRunsDroppingFilter == ~ci_env
QtStageRuns == ~ci_env \/ only_qt

WinGate ==
  /\ pc = "win_gate"
  /\ pc' = IF QtStageRuns THEN "win_qt_config" ELSE "win_choco"
  /\ UNCHANGED <<WINDOWS_REST, host, err, calls>>

\* line 74: windows.WindowsQt(*self.config.get_qt_config())
WinQtConfig ==
  /\ pc = "win_qt_config"
  /\ Invoke("get_qt_config", "ConfigError", "win_qt_dir")
  /\ UNCHANGED <<WINDOWS_REST, host>>

\* line 76: the install-or-skip decision on what get_install_dir returned
SkipsQtInverted(install_dir_found) == ~install_dir_found
SkipsQt(install_dir_found) == install_dir_found

\* lines 75-77: qt.get_install_dir(), and the skip notice
WinQtDir ==
  /\ pc = "win_qt_dir"
  /\ IF fault = "get_install_dir"
     THEN /\ calls' = Append(calls, "get_install_dir")
          /\ pc' = "except" /\ err' = "Exception"
          /\ UNCHANGED qt_install_dir
     ELSE /\ UNCHANGED err
          /\ qt_install_dir' = qt_installed
          /\ IF SkipsQt(qt_installed)
             THEN /\ calls' = calls \o <<"get_install_dir", "print_skip_qt">>
                  /\ pc' = "win_qt_env"
             ELSE /\ calls' = Append(calls, "get_install_dir")
                  /\ pc' = "win_qt_install"
  /\ UNCHANGED <<inputs, host, ci_env, error, command, ran,
                 exit_code, hist>>

\* line 79: qt.install(); afterwards the installation is on the host
WinQtInstallSwallows ==
  /\ pc = "win_qt_install"
  /\ calls' = Append(calls, "qt.install")
  /\ pc' = "win_qt_env"
  /\ qt_installed' = (fault # "qt.install")
  /\ UNCHANGED <<WINDOWS_REST, choco_packages, err>>
WinQtInstall ==
  /\ pc = "win_qt_install"
  /\ Invoke("qt.install", "Exception", "win_qt_env")
  /\ qt_installed' = (fault # "qt.install")
  /\ UNCHANGED <<WINDOWS_REST, choco_packages>>

\* line 81: the condition under which the environment variables are set
SetsQtEnvAlways == TRUE
SetsQtEnv == ~ci_env

\* lines 81-82: qt.set_env_vars()
WinQtEnv ==
  /\ pc = "win_qt_env"
  /\ IF SetsQtEnv
     THEN Invoke("set_env_vars", "Exception", "win_only")
     ELSE pc' = "win_only" /\ UNCHANGED <<err, calls>>
  /\ UNCHANGED <<WINDOWS_REST, host>>

\* lines 84-85: return when only Qt was asked for
WinOnlyReturnMissing ==
  /\ pc = "win_only"
  /\ pc' = "win_choco"
  /\ UNCHANGED <<WINDOWS_REST, host, err, calls>>

WinOnlyReturn ==
  /\ pc = "win_only"
  /\ pc' = IF only_qt THEN "pause" ELSE "win_choco"
  /\ UNCHANGED <<WINDOWS_REST, host, err, calls>>

\* line 88: the condition under which the CI configuration is applied
ChocoCiStepsAlways == TRUE
ChocoCiSteps == ci_env

\* line 87: windows.WindowsChoco()
WinChoco ==
  /\ pc = "win_choco"
  /\ Invoke("WindowsChoco", "Exception",
            IF ChocoCiSteps THEN "win_ci_cache" ELSE "win_deps_command")
  /\ UNCHANGED <<WINDOWS_REST, host>>

\* line 89: choco.config_ci_cache()
WinCiCache ==
  /\ pc = "win_ci_cache"
  /\ Invoke("config_ci_cache", "Exception", "win_ci_config")
  /\ UNCHANGED <<WINDOWS_REST, host>>

\* line 90: self.config.get_choco_ci_config()
WinCiConfig ==
  /\ pc = "win_ci_config"
  /\ Invoke("get_choco_ci_config", "ConfigError", "win_ci_remove")
  /\ UNCHANGED <<WINDOWS_REST, host>>

\* line 91: choco.remove_from_config(edit_config, skip_packages)
WinCiRemoveEditsConfig ==
  /\ pc = "win_ci_remove"
  /\ Invoke("remove_from_config", "Exception", "win_deps_command")
  /\ config' = IF fault = "remove_from_config" THEN config
               ELSE [config EXCEPT !.deps_command = <<"c">>]
  /\ UNCHANGED <<probed, only, ci_env, error, command, ran, exit_code,
                 qt_install_dir, hist, host>>

WinCiRemove ==
  /\ pc = "win_ci_remove"
  /\ Invoke("remove_from_config", "Exception", "win_deps_command")
  /\ choco_packages' =
       IF fault = "remove_from_config" THEN choco_packages
       ELSE RemoveFromChocoFile(choco_packages, config.choco_ci.skip_packages)
  /\ UNCHANGED <<WINDOWS_REST, qt_installed>>

\* line 93: self.config.get_deps_command()
WinDepsCommand ==
  /\ pc = "win_deps_command"
  /\ Invoke("get_deps_command", "ConfigError", "win_choco_install")
  /\ command' = IF fault = "get_deps_command" THEN command
                ELSE config.deps_command
  /\ UNCHANGED <<inputs, host, ci_env, error, ran, exit_code,
                 qt_install_dir, hist>>

\* line 94: choco.install(command, self.ci_env)
WinChocoInstallRetries ==
  /\ pc = "win_choco_install"
  /\ calls' = Append(calls, "choco.install")
  /\ IF fault = "choco.install"
     THEN IF Count(calls, "choco.install") = 0
          THEN pc' = "win_choco_install" /\ UNCHANGED err
          ELSE pc' = "except" /\ err' = "CommandFailedError"
     ELSE pc' = "pause" /\ UNCHANGED err
  /\ UNCHANGED <<WINDOWS_REST, host>>
WinChocoInstall ==
  /\ pc = "win_choco_install"
  /\ Invoke("choco.install", "CommandFailedError", "pause")
  /\ UNCHANGED <<WINDOWS_REST, host>>

---------------------------------------------------------------------------
(* Dependencies.mac *)

\* line 100: self.config.get_os_deps_value("command")
MacGetCommandHonoursFilter ==
  /\ pc = "mac"
  /\ IF only # ""
     THEN pc' = "pause" /\ UNCHANGED <<calls, err, command>>
     ELSE /\ Invoke("get_os_deps_value", "ConfigError", "mac_run")
          /\ command' = IF fault = "get_os_deps_value" THEN command
                        ELSE MacCommand
  /\ UNCHANGED <<inputs, host, ci_env, error, ran, exit_code,
                 qt_install_dir, hist>>
MacGetCommand ==
  /\ pc = "mac"
  /\ Invoke("get_os_deps_value", "ConfigError", "mac_run")
  /\ command' = IF fault = "get_os_deps_value" THEN command ELSE MacCommand
  /\ UNCHANGED <<inputs, host, ci_env, error, ran, exit_code, qt_install_dir, hist>>

\* lines 101-103: cmd_utils.run(command), strict
MacRunIgnoresCi ==
  /\ pc = "mac_run"
  /\ calls' = Append(calls, "run")
  /\ ran' = Append(ran, [cmd |-> command, check |-> TRUE])
  /\ IF RunRaises(TRUE)
     THEN pc' = "except" /\ err' = "CommandFailedError"
     ELSE pc' = "mac_prefix" /\ UNCHANGED err
  /\ UNCHANGED <<inputs, host, ci_env, error, command, exit_code,
                 qt_install_dir, hist>>
MacRun ==
  /\ pc = "mac_run"
  /\ calls' = Append(calls, "run")
  /\ ran' = Append(ran, [cmd |-> command, check |-> TRUE])
  /\ IF RunRaises(TRUE)
     THEN pc' = "except" /\ err' = "CommandFailedError"
     ELSE pc' = (IF ci_env THEN "pause" ELSE "mac_prefix") /\ UNCHANGED err
  /\ UNCHANGED <<inputs, host, ci_env, error, command, exit_code,
                 qt_install_dir, hist>>

\* line 104: self.config.get_os_value("qt-prefix-command")
MacPrefixCommand ==
  /\ pc = "mac_prefix"
  /\ Invoke("get_os_value", "ConfigError", "mac_set_prefix")
  /\ UNCHANGED <<inputs, host, ci_env, error, command, ran,
                 exit_code, qt_install_dir, hist>>

\* line 104: mac.set_cmake_prefix_env_var(...)
MacSetPrefix ==
  /\ pc = "mac_set_prefix"
  /\ Invoke("set_cmake_prefix_env_var", "Exception", "pause")
  /\ UNCHANGED <<inputs, host, ci_env, error, command, ran,
                 exit_code, qt_install_dir, hist>>

---------------------------------------------------------------------------
(* Dependencies.linux *)

\* lines 109-111: env.get_linux_distro(), and the check of its result
LinuxDistroUnchecked ==
  /\ pc = "linux"
  /\ Invoke("get_linux_distro", "DetectionError", "linux_resolve")
  /\ UNCHANGED <<inputs, host, ci_env, error, command, ran,
                 exit_code, qt_install_dir, hist>>
LinuxDistro ==
  /\ pc = "linux"
  /\ calls' = Append(calls, "get_linux_distro")
  /\ IF fault = "get_linux_distro"
     THEN pc' = "except" /\ err' = "DetectionError"
     ELSE IF distro = ""
     THEN pc' = "except" /\ err' = "UnknownDistro"
     ELSE pc' = "linux_resolve" /\ UNCHANGED err
  /\ UNCHANGED <<inputs, host, ci_env, error, command, ran,
                 exit_code, qt_install_dir, hist>>

\* line 113: self.config.get_linux_deps_command(distro)
LinuxResolveAfterProbe ==
  /\ pc = "linux_resolve"
  /\ calls' = calls \o <<"has_command", "get_linux_deps_command">>
  /\ IF fault = "get_linux_deps_command" \/ ~HasLinuxDepsCommand(distro)
     THEN pc' = "except" /\ err' = "UnsupportedDistroError" /\ UNCHANGED command
     ELSE pc' = "linux_run" /\ command' = linux_cmd /\ UNCHANGED err
  /\ UNCHANGED <<inputs, host, ci_env, error, ran, exit_code, qt_install_dir, hist>>

LinuxResolve ==
  /\ pc = "linux_resolve"
  /\ calls' = Append(calls, "get_linux_deps_command")
  /\ IF fault = "get_linux_deps_command" \/ ~HasLinuxDepsCommand(distro)
     THEN pc' = "except" /\ err' = "UnsupportedDistroError" /\ UNCHANGED command
     ELSE pc' = "linux_sudo" /\ command' = linux_cmd /\ UNCHANGED err
  /\ UNCHANGED <<inputs, host, ci_env, error, ran, exit_code, qt_install_dir, hist>>

\* line 116: the condition under which sudo is stripped
NeedsStripIgnoringHost(cmd, sudo_found) == Contains(cmd, Sudo)
NeedsStrip(cmd, sudo_found) == Contains(cmd, Sudo) /\ ~sudo_found

\* line 122: command.replace("sudo ", "").strip()
StripSudoFirstOnly(cmd) ==
  IF Contains(cmd, SudoSp)
  THEN LET i == CHOOSE k \in 1..Len(cmd) :
                  /\ SubSeq(cmd, k, k + 4) = SudoSp
                  /\ \A j \in 1..(k - 1) : SubSeq(cmd, j, j + 4) # SudoSp
       IN  Strip(SubSeq(cmd, 1, i - 1) \o SubSeq(cmd, i + 5, Len(cmd)))
  ELSE Strip(cmd)
StripSudo(cmd) == Strip(Replace(cmd, SudoSp, <<>>))

\* lines 115-122: cmd_utils.has_command("sudo"), and the stripping
LinuxSudo ==
  /\ pc = "linux_sudo"
  /\ IF fault = "has_command"
     THEN /\ calls' = Append(calls, "has_command")
          /\ pc' = "except" /\ err' = "Exception"
          /\ UNCHANGED command
     ELSE /\ pc' = "linux_run" /\ UNCHANGED err
          /\ IF NeedsStrip(command, has_sudo)
             THEN /\ calls' = calls \o <<"has_command", "print_strip">>
                  /\ command' = StripSudo(command)
             ELSE /\ calls' = Append(calls, "has_command")
                  /\ UNCHANGED command
  /\ UNCHANGED <<inputs, host, ci_env, error, ran, exit_code, qt_install_dir, hist>>

\* line 126: cmd_utils.run(command, check=False)
LinuxRunStrict ==
  /\ pc = "linux_run"
  /\ calls' = Append(calls, "run")
  /\ ran' = Append(ran, [cmd |-> command, check |-> TRUE])
  /\ IF RunRaises(TRUE)
     THEN pc' = "except" /\ err' = "CommandFailedError"
     ELSE pc' = "pause" /\ UNCHANGED err
  /\ UNCHANGED <<inputs, host, ci_env, error, command, exit_code,
                 qt_install_dir, hist>>
LinuxRun ==
  /\ pc = "linux_run"
  /\ calls' = Append(calls, "run")
  /\ ran' = Append(ran, [cmd |-> command, check |-> FALSE])
  /\ IF RunRaises(FALSE)
     THEN pc' = "except" /\ err' = "Exception"
     ELSE pc' = "pause" /\ UNCHANGED err
  /\ UNCHANGED <<inputs, host, ci_env, error, command, exit_code,
                 qt_install_dir, hist>>

---------------------------------------------------------------------------
(* main, after the try block *)

\* lines 27-29: except Exception
ExceptSwallows ==
  /\ pc = "except"
  /\ calls' = Append(calls, "print_exc")
  /\ pc' = "pause"
  /\ UNCHANGED <<inputs, host, ci_env, error, err, command, ran,
                 exit_code, qt_install_dir, hist>>

Except ==
  /\ pc = "except"
  /\ calls' = Append(calls, "print_exc")
  /\ error' = TRUE
  /\ pc' = "pause"
  /\ UNCHANGED <<inputs, host, ci_env, err, command, ran, exit_code,
                 qt_install_dir, hist>>

\* lines 31-32: the pause
PauseOnlyOnSuccess ==
  /\ pc = "pause"
  /\ calls' = IF pause_on_exit /\ ~error THEN Append(calls, "input") ELSE calls
  /\ pc' = "exit"
  /\ UNCHANGED <<inputs, host, ci_env, error, err, command, ran,
                 exit_code, qt_install_dir, hist>>

Pause ==
  /\ pc = "pause"
  /\ calls' = IF pause_on_exit THEN Append(calls, "input") ELSE calls
  /\ pc' = "exit"
  /\ UNCHANGED <<inputs, host, ci_env, error, err, command, ran,
                 exit_code, qt_install_dir, hist>>

\* lines 34-35: sys.exit(1) on error, else the script ends with status 0
Exit ==
  /\ pc = "exit"
  /\ exit_code' = IF error THEN 1 ELSE 0
  /\ calls' = Append(calls, "exit")
  /\ pc' = "done"
  /\ UNCHANGED <<inputs, host, ci_env, error, err, command, ran, qt_install_dir, hist>>

\* the next value of --only, in the order absent, "qt", another name
NextFilter(f) == IF f = "" THEN "qt" ELSE IF f = "qt" THEN "other" ELSE ""

\* the script is started again on the same host with --only set to f
Restart(f) ==
  /\ pc = "done"
  /\ run_no < MaxRuns
  /\ run_no' = run_no + 1
  /\ prev_calls' = calls
  /\ prev_exit' = exit_code
  /\ prev_only' = only
  /\ prev_ran' = ran
  /\ only' = f
  /\ pc' = "main"
  /\ ci_env' = FALSE
  /\ error' = FALSE
  /\ err' = ""
  /\ command' = <<>>
  /\ qt_install_dir' = FALSE
  /\ ran' = <<>>
  /\ calls' = <<>>
  /\ exit_code' = -1
  /\ UNCHANGED <<probed, config, host>>

\* the script is started again on the same host with the same arguments
Rerun == Restart(only)

\* the script is started again on the same host with another --only
RerunOtherFilter == Restart(NextFilter(only))

Next ==
  \/ Bootstrap \/ Construct \/ InitCi \/ Install
  \/ WinCheckAdmin \/ WinRelaunch \/ WinGate \/ WinQtConfig \/ WinQtDir
  \/ WinQtInstall \/ WinQtEnv \/ WinOnlyReturn \/ WinChoco \/ WinCiCache
  \/ WinCiConfig \/ WinCiRemove \/ WinDepsCommand \/ WinChocoInstall
  \/ MacGetCommand \/ MacRun \/ MacPrefixCommand \/ MacSetPrefix
  \/ LinuxDistro \/ LinuxResolve \/ LinuxSudo \/ LinuxRun
  \/ Except \/ Pause \/ Exit \/ Rerun \/ RerunOtherFilter

Spec == Init /\ [][Next]_vars

---------------------------------------------------------------------------
(* Vocabulary of the properties *)

Strategies == {"windows", "mac", "linux"}
StrategiesEntered == {st \in Strategies : Called(st)}

ToolkitCalls == {"get_qt_config", "get_install_dir", "qt.install"}
CiConfigCalls == {"config_ci_cache", "get_choco_ci_config",
                  "remove_from_config"}
PackageManagerCalls == CiConfigCalls \cup
                       {"WindowsChoco", "get_deps_command", "choco.install"}
InstallingCalls == {"run", "qt.install", "choco.install"}

Idx(c) == IndexOf(calls, c)
Before(a, b) == Idx(a) > 0 /\ Idx(a) < Idx(b)

\* the strategy has got past windows.is_admin() with the answer True
PassedCheckAdmin ==
  /\ Called("is_admin") /\ fault # "is_admin" /\ is_admin
  /\ pc \notin {"win_gate", "win_qt_config"}

\* the install-or-skip decision of the Qt stage has been carried out
QtDecisionDone ==
  \/ Called("print_skip_qt")
  \/ Called("qt.install") /\ fault # "qt.install"

---------------------------------------------------------------------------
(* C1: once install() has dispatched, a host of a recognized family has    *)
(* entered exactly the strategy of that family and no other; on a host of  *)
(* an unrecognized family no strategy is ever entered, no command          *)
(* (cmd_utils.run, Qt installer, package-manager step) is ever executed,   *)
(* and install() fails with the unsupported-platform error, exit status 1. *)
C1_ExactlyOneMatchingStrategy ==
  /\ StrategiesEntered \subseteq {os_family}
  /\ (os_family \in Strategies /\ Called("install"))
       => StrategiesEntered = {os_family}
  /\ os_family \notin Strategies
       => /\ \A c \in InstallingCalls \cup PackageManagerCalls
                      \cup ToolkitCalls : ~Called(c)
          /\ ran = <<>>
          /\ Called("install") => err = "UnsupportedPlatform"
          /\ (pc = "done" /\ Called("install")) => exit_code = 1

C1_Witness ==
  /\ os_family = "unknown" /\ pc = "done"
  /\ err = "UnsupportedPlatform" /\ exit_code = 1

(* C2: in an elevated Windows process with only = "qt", for both values of *)
(* is_ci, no package-manager step (WindowsChoco, config_ci_cache,          *)
(* get_choco_ci_config, remove_from_config, get_deps_command,              *)
(* choco.install) is ever invoked; and a run in which no collaborator      *)
(* raised ends with status 0 right after the Qt install-or-skip logic.     *)
C2_ToolkitOnly ==
  (env_is_windows /\ is_admin /\ only = "qt")
    => /\ \A c \in PackageManagerCalls : ~Called(c)
       /\ (pc = "done" /\ err = "")
            => /\ exit_code = 0
               /\ Called("get_install_dir")
               /\ Called("print_skip_qt") \/ Called("qt.install")

C2_Witness ==
  /\ env_is_windows /\ is_admin /\ only = "qt" /\ is_ci
  /\ pc = "done" /\ exit_code = 0 /\ Called("qt.install")

(* C3 as stated: on Windows, at the end of a run in which nothing raised,  *)
(* the Qt stage was not entered when is_ci and only # "qt", and was        *)
(* entered exactly once in every other combination of is_ci and only.      *)
C3_StageRunsOnEveryWindowsRun ==
  (env_is_windows /\ fault = "none" /\ pc = "done")
    => IF is_ci /\ only # "qt"
       THEN ~Called("get_install_dir") /\ ~Called("qt.install")
       ELSE Count(calls, "get_qt_config") = 1

(* C3 amended: on Windows the Qt stage is never entered when is_ci and     *)
(* only # "qt"; in every other combination it is entered exactly once      *)
(* provided the process is elevated (windows.is_admin() answered True),    *)
(* and never more than once.                                               *)
C3_StageRunsWhenElevated ==
  env_is_windows
    => /\ (is_ci /\ only # "qt") => \A c \in ToolkitCalls : ~Called(c)
       /\ (PassedCheckAdmin /\ ~(is_ci /\ only # "qt"))
            => Count(calls, "get_qt_config") = 1
       /\ Count(calls, "get_qt_config") <= 1
       /\ Called("get_qt_config") => PassedCheckAdmin

C3_Witness ==
  /\ env_is_windows /\ is_admin /\ is_ci /\ only = ""
  /\ pc = "done" /\ exit_code = 0 /\ Called("choco.install")
  /\ ~Called("get_install_dir")

(* C4: on Windows the CI package-manager steps are invoked only when is_ci *)
(* holds; when they are, config_ci_cache comes first, then                 *)
(* get_choco_ci_config and remove_from_config, and get_deps_command and    *)
(* choco.install come only after them; a CI run never resolves the command *)
(* without them, and a non-CI run never invokes them.                      *)
C4_CiConfigOrder ==
  env_is_windows
    => /\ \A c \in CiConfigCalls : Called(c) => is_ci /\ ci_env
       /\ Called("get_choco_ci_config")
            => Before("config_ci_cache", "get_choco_ci_config")
       /\ Called("remove_from_config")
            => Before("get_choco_ci_config", "remove_from_config")
       /\ (is_ci /\ Called("get_deps_command"))
            => Before("remove_from_config", "get_deps_command")
       /\ Called("choco.install")
            => Before("get_deps_command", "choco.install")
       /\ \A c \in CiConfigCalls : Count(calls, c) <= 1

C4_Witness ==
  /\ env_is_windows /\ is_ci /\ pc = "done" /\ exit_code = 0
  /\ Called("remove_from_config") /\ Called("choco.install")

(* C5: on Windows set_env_vars is never invoked in a CI run, whatever the  *)
(* filter; in a non-CI run, once the install-or-skip decision has been     *)
(* carried out (Qt installed, or skipped as already installed) it is       *)
(* invoked exactly once, after that decision and before every              *)
(* package-manager step.                                                   *)
C5_QtEnvVars ==
  env_is_windows
    => /\ is_ci => ~Called("set_env_vars")
       /\ Count(calls, "set_env_vars") <= 1
       /\ (~is_ci /\ QtDecisionDone /\ pc # "win_qt_env")
            => /\ Count(calls, "set_env_vars") = 1
               /\ Before("get_install_dir", "set_env_vars")
               /\ Called("qt.install") => Before("qt.install", "set_env_vars")
               /\ Called("print_skip_qt")
                    => Before("print_skip_qt", "set_env_vars")
       /\ \A c \in PackageManagerCalls :
            (~is_ci /\ Called(c)) => Before("set_env_vars", c)
       /\ Called("set_env_vars") => QtDecisionDone

C5_Witness ==
  /\ env_is_windows /\ ~is_ci /\ pc = "done" /\ exit_code = 0
  /\ Called("qt.install") /\ Called("set_env_vars") /\ Called("choco.install")

(* C6: when get_install_dir found the toolkit, the Windows strategy does   *)
(* not invoke the Qt installer and prints the skip notice; and a run       *)
(* started again on the same host with the same arguments (the same        *)
(* --only) after a run that skipped makes the same sequence of calls and   *)
(* ends with the same status.                                              *)
C6_SkipIsIdempotent ==
  /\ (env_is_windows /\ qt_install_dir)
       => ~Called("qt.install") /\ Called("print_skip_qt")
  /\ (pc = "done" /\ run_no > 1 /\ prev_only = only
        /\ IndexOf(prev_calls, "print_skip_qt") > 0)
       => /\ calls = prev_calls
          /\ exit_code = prev_exit
          /\ qt_installed

C6_Witness ==
  /\ pc = "done" /\ run_no > 1 /\ prev_only = only /\ qt_install_dir
  /\ IndexOf(prev_calls, "print_skip_qt") > 0 /\ Called("print_skip_qt")

(* C7: on a Linux host whose distro has no configured command,             *)
(* has_command and cmd_utils.run are never called; get_linux_deps_command  *)
(* raises, the exception reaches main's except clause, and the run ends    *)
(* with the trace printed and status 1.                                    *)
C7_UnconfiguredDistroRunsNothing ==
  (env_is_linux /\ distro # "" /\ ~HasLinuxDepsCommand(distro))
    => /\ ~Called("has_command") /\ ~Called("run") /\ ran = <<>>
       /\ Called("get_linux_deps_command")
            => /\ err = "UnsupportedDistroError"
               /\ pc \in {"except", "pause", "exit", "done"}
       /\ (pc = "done" /\ Called("get_linux_deps_command"))
            => error /\ Called("print_exc") /\ exit_code = 1

C7_Witness ==
  /\ env_is_linux /\ distro = "exotic" /\ pc = "done"
  /\ err = "UnsupportedDistroError" /\ exit_code = 1

(* C8: on Linux, unless the resolved command contains "sudo" and sudo is   *)
(* absent from the host, nothing is stripped: no stripping notice is       *)
(* printed and the command passed to cmd_utils.run is the resolved         *)
(* command, unchanged.                                                     *)
C8_VerbatimUnlessSudoMissing ==
  (env_is_linux /\ ~(Contains(linux_cmd, Sudo) /\ ~has_sudo))
    => /\ ~Called("print_strip")
       /\ \A i \in 1..Len(ran) : ran[i].cmd = linux_cmd
       /\ pc \in {"linux_sudo", "linux_run"} => command = linux_cmd

C8_Witness ==
  /\ env_is_linux /\ has_sudo /\ Contains(linux_cmd, SudoSp)
  /\ Len(ran) = 1 /\ ran[1].cmd = linux_cmd /\ pc = "done"

(* C9: a run that got as far as constructing Dependencies ends with status *)
(* 1 exactly when an exception was raised in the construction or in        *)
(* install(), and with status 0 otherwise; with status 1 the trace was     *)
(* printed before the exit; once raised, an exception always leaves        *)
(* `error` set when the except clause is done.                             *)
C9_ExitCode ==
  /\ (pc = "done" /\ Called("Config"))
       => /\ exit_code = (IF err # "" THEN 1 ELSE 0)
          /\ exit_code = 1 => Before("print_exc", "exit")
          /\ exit_code = 0 => ~Called("print_exc")
  /\ (pc \in {"pause", "exit", "done"} /\ Called("Config"))
       => (error <=> err # "")

C9_Witness ==
  /\ env_is_mac /\ pc = "done" /\ err = "CommandFailedError"
  /\ run_exit = 100 /\ exit_code = 1

(* C10 as stated: with pause_on_exit set, every run that ends after the    *)
(* construction of Dependencies was started has prompted before it ended,  *)
(* and on failure the prompt came after the trace and before the exit.     *)
C10_PauseOnEveryEnd ==
  (pause_on_exit /\ pc = "done" /\ Called("Config"))
    => /\ Called("input")
       /\ exit_code = 1 => Before("print_exc", "input") /\ Before("input", "exit")

(* C10 amended: with pause_on_exit set, every run that ends after the      *)
(* construction of Dependencies was started, other than by the sys.exit()  *)
(* that follows the Windows relaunch as administrator, has prompted        *)
(* exactly once before it ended, on failure after the trace and before the *)
(* exit with status 1; the relaunch path ends without a prompt, and        *)
(* without the flag there is never a prompt.                               *)
C10_PauseUnlessRelaunched ==
  /\ (pause_on_exit /\ pc = "done" /\ Called("Config") /\ ~Called("sys.exit"))
       => /\ Count(calls, "input") = 1
          /\ Before("input", "exit")
          /\ exit_code = 1 => Before("print_exc", "input")
  /\ Called("sys.exit") => ~Called("input")
  /\ ~pause_on_exit => ~Called("input")

C10_Witness ==
  /\ pause_on_exit /\ pc = "done" /\ exit_code = 1
  /\ Before("print_exc", "input") /\ Before("input", "exit")

(* C11: on Linux the install command is run with check=False; whatever     *)
(* status it exits with (0 or 100), once cmd_utils.run has returned the    *)
(* strategy is done without an exception and the run ends with status 0.   *)
C11_LinuxRunIsNotStrict ==
  env_is_linux
    => /\ \A i \in 1..Len(ran) : ran[i].check = FALSE
       /\ (Called("run") /\ fault # "run")
            => /\ err = "" /\ ~error /\ ~Called("print_exc")
               /\ pc \in {"pause", "exit", "done"}
               /\ pc = "done" => exit_code = 0

C11_Witness ==
  /\ env_is_linux /\ run_exit = 100 /\ Len(ran) = 1
  /\ pc = "done" /\ exit_code = 0

(* C12: on a Windows host where is_admin() answers False, no toolkit       *)
(* call, no set_env_vars and no package-manager step is ever made; once    *)
(* relaunch_as_admin has returned the process is over at once: sys.exit()  *)
(* is the last thing it did, no trace and no prompt, status 0.             *)
C12_RelaunchEndsTheProcess ==
  (env_is_windows /\ ~is_admin)
    => /\ \A c \in ToolkitCalls \cup PackageManagerCalls \cup {"set_env_vars"} :
            ~Called(c)
       /\ (Called("relaunch_as_admin") /\ fault # "relaunch_as_admin")
            => /\ pc = "done" /\ exit_code = 0 /\ err = "" /\ ~error
               /\ ~Called("print_exc") /\ ~Called("input")
               /\ calls[Len(calls)] = "sys.exit"
               /\ Idx("sys.exit") = Idx("relaunch_as_admin") + 1

C12_Witness ==
  /\ env_is_windows /\ ~is_admin /\ pc = "done"
  /\ Called("sys.exit") /\ exit_code = 0

\* the stripping of lines 116-122 has been carried out in this run
SudoStripped == env_is_linux /\ Called("print_strip")

(* C13 as stated: whenever the resolved command contains "sudo" and sudo   *)
(* is absent, the command executed is the resolved command with the        *)
(* occurrences of "sudo " removed and nothing else changed.                *)
C13_OnlySudoTokenRemoved ==
  (env_is_linux /\ Contains(linux_cmd, Sudo) /\ ~has_sudo)
    => \A i \in 1..Len(ran) : ran[i].cmd = Replace(linux_cmd, SudoSp, <<>>)

(* C13 amended: whenever the resolved command contains "sudo" and sudo is  *)
(* absent, the command executed is the resolved command with every         *)
(* occurrence of the text "sudo " removed (also inside a longer word) and  *)
(* then leading and trailing whitespace removed; a "sudo" that is not      *)
(* followed by a space is kept.  So the executed command never begins or   *)
(* ends with a space, is never longer than the resolved one, and is the    *)
(* resolved command itself when that has no "sudo " and no outer space.    *)
C13_SudoRemovedAndTrimmed ==
  (env_is_linux /\ Contains(linux_cmd, Sudo) /\ ~has_sudo)
    => \A i \in 1..Len(ran) :
         LET out == ran[i].cmd
         IN  /\ out = Strip(Replace(linux_cmd, SudoSp, <<>>))
             /\ out = <<>> \/ (out[1] # " " /\ out[Len(out)] # " ")
             /\ Len(out) <= Len(linux_cmd)
             /\ (~Contains(linux_cmd, SudoSp) /\ Strip(linux_cmd) = linux_cmd)
                  => out = linux_cmd
             /\ Called("print_strip")

C13_Witness ==
  /\ SudoStripped /\ pc = "done" /\ Len(ran) = 1
  /\ linux_cmd = SudoSp \o SudoSp \o <<"x">>
  /\ ran[1].cmd = <<"x">>

(* C14: on a Linux host where get_linux_distro returns no distro or        *)
(* raises, get_linux_deps_command, has_command and cmd_utils.run are never *)
(* called, and the run ends with status 1.                                 *)
C14_NoDistroIsFatal ==
  (env_is_linux /\ (distro = "" \/ fault = "get_linux_distro"))
    => /\ ~Called("get_linux_deps_command")
       /\ ~Called("has_command")
       /\ ~Called("run") /\ ran = <<>>
       /\ Called("get_linux_distro")
            => /\ err \in {"UnknownDistro", "DetectionError"}
               /\ pc \in {"except", "pause", "exit", "done"}
       /\ pc = "done" => exit_code = 1

C14_Witness ==
  /\ env_is_linux /\ distro = "" /\ fault = "none"
  /\ pc = "done" /\ err = "UnknownDistro" /\ exit_code = 1

\* the external install command of the mac strategy ended in failure
MacRunFailed == fault = "run" \/ run_exit # 0

(* C15: on macOS the install command is run strictly (check on), once, and *)
(* before the prefix helper: get_os_value and set_cmake_prefix_env_var are *)
(* invoked only after cmd_utils.run, only when it succeeded and only when  *)
(* not in CI; when the command fails or the run is in CI neither is ever   *)
(* invoked; otherwise, once the strategy is done, both have been.          *)
C15_MacPrefixOnlyAfterInstall ==
  env_is_mac
    => /\ Len(ran) <= 1
       /\ \A i \in 1..Len(ran) : ran[i].check /\ ran[i].cmd = MacCommand
       /\ Called("run") => Before("get_os_deps_value", "run")
       /\ Called("get_os_value") => Before("run", "get_os_value")
       /\ Called("set_cmake_prefix_env_var")
            => Before("get_os_value", "set_cmake_prefix_env_var")
       /\ (is_ci \/ MacRunFailed)
            => ~Called("get_os_value") /\ ~Called("set_cmake_prefix_env_var")
       /\ (Called("run") /\ MacRunFailed) => err = "CommandFailedError"
       /\ (pc = "done" /\ err = "" /\ Called("run") /\ ~is_ci)
            => Count(calls, "set_cmake_prefix_env_var") = 1

C15_Witness ==
  /\ env_is_mac /\ ~is_ci /\ pc = "done" /\ exit_code = 0
  /\ Before("run", "set_cmake_prefix_env_var")

\* position of the last occurrence of c in the log, 0 when absent
LastIdx(c) ==
  IF Called(c)
  THEN CHOOSE i \in 1..Len(calls) :
         calls[i] = c /\ \A j \in (i + 1)..Len(calls) : calls[j] # c
  ELSE 0

(* C17: in a run each installing operation (cmd_utils.run, qt.install,     *)
(* choco.install) is invoked at most once, the Command Runner is invoked   *)
(* at most once, and after an installing operation has failed no           *)
(* installing operation is started.                                        *)
C17_NoRetry ==
  /\ \A c \in InstallingCalls : Count(calls, c) <= 1
  /\ Len(ran) <= 1
  /\ \A c \in InstallingCalls :
       (fault = c /\ Called(c))
         => \A d \in InstallingCalls : LastIdx(d) <= Idx(c)
  /\ (env_is_mac /\ run_exit # 0 /\ Called("run"))
       => calls[Len(calls)] \in {"run", "print_exc", "input", "exit"}

C17_Witness ==
  /\ env_is_windows /\ fault = "choco.install" /\ pc = "done"
  /\ Before("qt.install", "choco.install")
  /\ Count(calls, "choco.install") = 1 /\ exit_code = 1

\* a call of the Qt stage raised
QtStageFailed ==
  /\ fault \in {"get_qt_config", "get_install_dir", "qt.install"}
  /\ Called(fault)

(* C18: on Windows, when get_qt_config, get_install_dir or qt.install      *)
(* raises, set_env_vars and every package-manager step are never invoked,  *)
(* the exception reaches main's except clause and the run ends with        *)
(* status 1.                                                               *)
C18_QtFailureStopsTheRun ==
  (env_is_windows /\ QtStageFailed)
    => /\ ~Called("set_env_vars")
       /\ \A c \in PackageManagerCalls : ~Called(c)
       /\ err # ""
       /\ pc \in {"except", "pause", "exit", "done"}
       /\ calls[Len(calls)] \in {fault, "print_exc", "input", "exit"}
       /\ pc = "done" => error /\ Called("print_exc") /\ exit_code = 1

C18_Witness ==
  /\ env_is_windows /\ fault = "qt.install" /\ Called("qt.install")
  /\ pc = "done" /\ exit_code = 1 /\ ~qt_install_dir

C19_ConfigOnlyRead ==
  /\ config = LoadedConfig
  /\ env_is_windows
       => /\ \A c \in CiConfigCalls : Called(c) => is_ci
          /\ (Called("get_deps_command") /\ fault # "get_deps_command")
               => command = LoadedConfig.deps_command
          /\ (Called("remove_from_config") /\ fault # "remove_from_config")
               => choco_packages =
                    ChocoFilePackages \ LoadedConfig.choco_ci.skip_packages
          /\ ~is_ci => choco_packages = ChocoFilePackages

C19_Witness ==
  /\ env_is_windows /\ is_ci /\ pc = "done" /\ exit_code = 0
  /\ Called("remove_from_config") /\ Called("choco.install")
  /\ command = config.deps_command /\ choco_packages = {"a"}

====
